---- MODULE Spec2Model ----
(***************************************************************************)
(* Model of the shift planner of gestione_turni.py: the roster (Addetto),  *)
(* the shift catalog (Turno), the calendar of the target month and the     *)
(* greedy allocation TurnoManager.pianifica_turni, stepped pair by pair.   *)
(*                                                                         *)
(* Durations and ledgers are counted in minutes (the code holds hours as   *)
(* h + m/60); ore_max_settimanale and ore_contratto stay in hours.         *)
(* A date is a record [anno, mese, giorno]; a datetime of the code is      *)
(* always a date at midnight.                                              *)
(***************************************************************************)
EXTENDS Integers, Sequences, FiniteSets, TLC

VARIABLES
    anno,            \* TurnoManager.anno
    mese,            \* TurnoManager.mese
    addetti,         \* TurnoManager.addetti: sequence of Addetto records
    turni,           \* TurnoManager.turni: sequence of Turno records
    pianificazione,  \* TurnoManager.pianificazione: date -> sequence of <<nome, turno>>
    pc,              \* position of the running pianifica_turni call, "idle" outside
    giorni,          \* local of pianifica_turni: the eligible days of the month
    idx,             \* number of days of giorni the for loop has taken
    coda,            \* the pairs of zip(disponibili, turni_da_assegnare) still to visit
    esito,           \* value returned by the last pianifica_turni call ("nessuno" before)
    processati,      \* history: the days the loop of the current/last call has taken, in order
    riuso,           \* history: the current/last run started on state left by an earlier run
    modifiche,       \* configuration changes made since the last successful run started
    stats,           \* <<dict>> returned by genera_statistiche to the caller that has
                     \* just asked for it, << >> once the caller has gone on
    file,            \* <<document>> DataManager.salva_dati wrote, << >> while no file exists
    caricati,        \* <<tuple>> returned by the last DataManager.carica_dati, << >> before
    corse,           \* two pianifica_turni calls of two managers on the same Addetto
                     \* objects: the locals and the Schedule of each, << >> otherwise
    scambi           \* history of how the two calls were scheduled, << >> otherwise

vars == <<anno, mese, addetti, turni, pianificazione, pc, giorni, idx, coda,
          esito, processati, riuso, modifiche, stats, file, caricati, corse, scambi>>

(***************************************************************************)
(* Bounds of the model                                                     *)
(***************************************************************************)
MaxModifiche == 1
MaxAddetti == 2
MaxTurni == 2
MaxPrelazioni == 2

Nomi == {"A", "B"}
Mesi == {<<2025, 1>>, <<2025, 12>>}
AnniCalendario == 2020..2031

MinutiPerOra == 60
MinutiPerGiorno == 1440

(***************************************************************************)
(* Calendar: datetime, calendar.monthrange, weekday, isocalendar           *)
(***************************************************************************)
Data(a, m, g) == [anno |-> a, mese |-> m, giorno |-> g]

IsLeap(y) == (y % 4 = 0) /\ ((y % 100 # 0) \/ (y % 400 = 0))

GiorniPrimaDelMese == <<0, 31, 59, 90, 120, 151, 181, 212, 243, 273, 304, 334>>

monthrange(y, m) ==
    IF m = 2 THEN (IF IsLeap(y) THEN 29 ELSE 28)
    ELSE IF m \in {4, 6, 9, 11} THEN 30 ELSE 31

DaysBeforeYear(y) ==
    (y - 1) * 365 + ((y - 1) \div 4) - ((y - 1) \div 100) + ((y - 1) \div 400)

DaysBeforeMonth(y, m) ==
    GiorniPrimaDelMese[m] + (IF m > 2 /\ IsLeap(y) THEN 1 ELSE 0)

toordinal(d) == DaysBeforeYear(d.anno) + DaysBeforeMonth(d.anno, d.mese) + d.giorno

\* datetime.weekday(): 0 = Monday .. 6 = Sunday
weekday(d) == (toordinal(d) + 6) % 7

\* ordinal of the Monday of ISO week 1 of year y
isoweek1monday(y) ==
    LET firstday == toordinal(Data(y, 1, 1))
        firstweekday == (firstday + 6) % 7
        monday == firstday - firstweekday
    IN  IF firstweekday > 3 THEN monday + 7 ELSE monday

\* datetime.isocalendar()[1]
isocalendar_week(d) ==
    LET today == toordinal(d)
        w0 == today - isoweek1monday(d.anno)
    IN  IF w0 < 0
        THEN ((today - isoweek1monday(d.anno - 1)) \div 7) + 1
        ELSE IF (w0 \div 7) >= 52 /\ today >= isoweek1monday(d.anno + 1)
             THEN 1
             ELSE (w0 \div 7) + 1

\* data - timedelta(days=1)
giorno_precedente(d) ==
    IF d.giorno > 1 THEN Data(d.anno, d.mese, d.giorno - 1)
    ELSE IF d.mese > 1 THEN Data(d.anno, d.mese - 1, monthrange(d.anno, d.mese - 1))
    ELSE Data(d.anno - 1, 12, 31)

(***************************************************************************)
(* Turno                                                                   *)
(***************************************************************************)
\* "HH:MM" split at the colon: h + m / 60 hours, held as minutes
minuti(h, m) == h * MinutiPerOra + m

\* variant: an end equal to the start is taken to cross midnight as well
_calcola_ore_fine_non_dopo(inizio, fine) ==
    IF fine <= inizio THEN (fine + MinutiPerGiorno) - inizio ELSE fine - inizio

\* Turno._calcola_ore, in minutes; inizio and fine are minutes since midnight
_calcola_ore(inizio, fine) ==
    IF fine < inizio THEN (fine + MinutiPerGiorno) - inizio ELSE fine - inizio

Turno(nome, inizio, fine) ==
    [nome |-> nome, ora_inizio |-> inizio, ora_fine |-> fine,
     ore |-> _calcola_ore(inizio, fine)]

Mattina == Turno("Mattina", 8 * MinutiPerOra, 14 * MinutiPerOra)
Pomeriggio == Turno("Pomeriggio", 14 * MinutiPerOra, 20 * MinutiPerOra)
Notte == Turno("Notte", 22 * MinutiPerOra, 6 * MinutiPerOra)
TurniScelte == {Mattina, Pomeriggio, Notte}

(***************************************************************************)
(* Python dict with insertion order: a sequence of <<key, value>> pairs    *)
(***************************************************************************)
DictKeys(dct) == {dct[i][1] : i \in DOMAIN dct}
DictHas(dct, k) == \E i \in DOMAIN dct : dct[i][1] = k
DictGet(dct, k) == dct[CHOOSE i \in DOMAIN dct : dct[i][1] = k][2]
DictSet(dct, k, v) ==
    IF DictHas(dct, k)
    THEN [i \in DOMAIN dct |-> IF dct[i][1] = k THEN <<k, v>> ELSE dct[i]]
    ELSE Append(dct, <<k, v>>)

(***************************************************************************)
(* Addetto                                                                 *)
(***************************************************************************)
\* Addetto.__init__ followed by the rest days and absences the caller adds
Addetto(nome, ore_contratto, ore_max, straordinario, riposo, ferie) ==
    [nome |-> nome, ore_contratto |-> ore_contratto,
     ore_max_settimanale |-> ore_max, straordinario |-> straordinario,
     ore_per_settimana |-> << >>, giorni_riposo |-> riposo,
     ferie_permessi |-> ferie, turni_assegnati |-> << >>]

\* an element of ferie_permessi: a datetime (built by the menus) or a date
Feria(tipo, d) == [tipo |-> tipo, data |-> d]

\* "data in self.ferie_permessi" for a datetime data: a datetime never equals a date
in_ferie(a, data) ==
    \E i \in DOMAIN a.ferie_permessi :
        a.ferie_permessi[i].tipo = "datetime" /\ a.ferie_permessi[i].data = data

\* variant: the absences are not looked at
puo_lavorare_senza_ferie(a, data) ==
    IF weekday(data) \in a.giorni_riposo THEN FALSE ELSE TRUE

puo_lavorare(a, data) ==
    IF weekday(data) \in a.giorni_riposo THEN FALSE
    ELSE IF in_ferie(a, data) THEN FALSE
    ELSE TRUE

get_ore_settimana(a, w) ==
    IF DictHas(a.ore_per_settimana, w) THEN DictGet(a.ore_per_settimana, w) ELSE 0

\* variant: the hours of the shift replace the hours of the week
add_ore_settimana_sovrascrive(a, w, ore) ==
    [a EXCEPT !.ore_per_settimana = DictSet(a.ore_per_settimana, w, ore)]

add_ore_settimana(a, w, ore) ==
    LET base == IF DictHas(a.ore_per_settimana, w) THEN a.ore_per_settimana
                ELSE DictSet(a.ore_per_settimana, w, 0)
    IN  [a EXCEPT !.ore_per_settimana = DictSet(base, w, DictGet(base, w) + ore)]

\* variant: the hours held so far are compared, not the hours after the shift
puo_aggiungere_senza_turno(a, w, ore) ==
    get_ore_settimana(a, w) <= a.ore_max_settimanale * MinutiPerOra

\* variant: the weekly maximum itself may not be reached
puo_aggiungere_sotto_il_massimo(a, w, ore) ==
    get_ore_settimana(a, w) + ore < a.ore_max_settimanale * MinutiPerOra

\* variant: a member allowed overtime may go over the weekly maximum
puo_aggiungere_con_straordinario(a, w, ore) ==
    a.straordinario \/ get_ore_settimana(a, w) + ore <= a.ore_max_settimanale * MinutiPerOra

puo_aggiungere_ore_settimana(a, w, ore) ==
    get_ore_settimana(a, w) + ore <= a.ore_max_settimanale * MinutiPerOra

(***************************************************************************)
(* TurnoManager: calendar of the month                                     *)
(***************************************************************************)
GIORNI_FESTIVI == {<<1, 1>>, <<4, 20>>, <<5, 1>>, <<12, 25>>, <<12, 26>>}

\* variant: Sundays count as holidays
is_festivo_o_domenica(d) ==
    <<d.mese, d.giorno>> \in GIORNI_FESTIVI \/ weekday(d) = 6

is_festivo(d) == <<d.mese, d.giorno>> \in GIORNI_FESTIVI

is_domenica(d) == weekday(d) = 6

\* variant: each day is put in front of the list
RECURSIVE giorni_da_in_testa(_, _, _, _)
giorni_da_in_testa(a, m, g, ultimo) ==
    IF g > ultimo THEN << >>
    ELSE giorni_da_in_testa(a, m, g + 1, ultimo)
         \o (IF ~is_festivo(Data(a, m, g)) THEN <<Data(a, m, g)>> ELSE << >>)

RECURSIVE giorni_da(_, _, _, _)
giorni_da(a, m, g, ultimo) ==
    IF g > ultimo THEN << >>
    ELSE (IF ~is_festivo(Data(a, m, g)) THEN <<Data(a, m, g)>> ELSE << >>)
         \o giorni_da(a, m, g + 1, ultimo)

\* variant: range(1, num_giorni), the last day of the month is lost
get_giorni_mese_senza_ultimo(a, m) == giorni_da(a, m, 1, monthrange(a, m) - 1)

get_giorni_mese(a, m) == giorni_da(a, m, 1, monthrange(a, m))

\* variant: the week of the month instead of the ISO week
get_numero_settimana_del_mese(d) == ((d.giorno - 1) \div 7) + 1

get_numero_settimana(d) == isocalendar_week(d)

(***************************************************************************)
(* TurnoManager: the selection heuristics                                  *)
(***************************************************************************)
\* list.remove(x): drops the first element equal to x
list_remove(lst, x) ==
    LET k == CHOOSE i \in DOMAIN lst : lst[i] = x /\ \A j \in 1..(i - 1) : lst[j] # x
    IN  SubSeq(lst, 1, k - 1) \o SubSeq(lst, k + 1, Len(lst))

\* variant: 1 as soon as the member worked the day before
_get_priorita_se_ieri(a, data, catalogo) ==
    IF ~DictHas(a.turni_assegnati, giorno_precedente(data)) THEN 0 ELSE 1

_get_priorita_turno(a, data, catalogo) ==
    LET data_precedente == giorno_precedente(data)
    IN  IF ~DictHas(a.turni_assegnati, data_precedente) THEN 0
        ELSE IF \E i \in DOMAIN catalogo :
                    catalogo[i] # DictGet(a.turni_assegnati, data_precedente)
             THEN 0
             ELSE 1

\* variant: the first shift assigned in the run is taken for the last one
_scegli_turno_dal_primo(a, pool, catalogo) ==
    IF pool = << >> THEN catalogo[1]
    ELSE IF a.turni_assegnati = << >> THEN pool[1]
    ELSE LET ultimo_turno == a.turni_assegnati[1][2]
             diversi == {i \in DOMAIN pool : pool[i] # ultimo_turno}
         IN  IF diversi # {}
             THEN pool[CHOOSE i \in diversi : \A j \in diversi : i <= j]
             ELSE pool[1]

_scegli_turno_migliore(a, pool, catalogo) ==
    IF pool = << >> THEN catalogo[1]
    ELSE IF a.turni_assegnati = << >> THEN pool[1]
    ELSE LET ultimo_turno == a.turni_assegnati[Len(a.turni_assegnati)][2]
             diversi == {i \in DOMAIN pool : pool[i] # ultimo_turno}
         IN  IF diversi # {}
             THEN pool[CHOOSE i \in diversi : \A j \in diversi : i <= j]
             ELSE pool[1]

\* variant: the member that finds the pool empty refills it and gets nothing
RECURSIVE seleziona_loop_senza_ripresa(_, _, _, _, _)
seleziona_loop_senza_ripresa(lst, ads, catalogo, pool, selezionati) ==
    IF lst = << >> THEN selezionati
    ELSE IF pool # << >>
         THEN LET turno == _scegli_turno_migliore(ads[Head(lst)], pool, catalogo)
              IN  seleziona_loop_senza_ripresa(Tail(lst), ads, catalogo,
                                               list_remove(pool, turno),
                                               Append(selezionati, turno))
         ELSE seleziona_loop_senza_ripresa(Tail(lst), ads, catalogo, catalogo, selezionati)

\* variant: the refilled pool keeps the entry handed out at the refill
RECURSIVE seleziona_loop_senza_pop(_, _, _, _, _)
seleziona_loop_senza_pop(lst, ads, catalogo, pool, selezionati) ==
    IF lst = << >> THEN selezionati
    ELSE IF pool # << >>
         THEN LET turno == _scegli_turno_migliore(ads[Head(lst)], pool, catalogo)
              IN  seleziona_loop_senza_pop(Tail(lst), ads, catalogo,
                                           list_remove(pool, turno),
                                           Append(selezionati, turno))
         ELSE IF catalogo # << >>
              THEN seleziona_loop_senza_pop(Tail(lst), ads, catalogo, catalogo,
                                            Append(selezionati, catalogo[1]))
              ELSE seleziona_loop_senza_pop(Tail(lst), ads, catalogo, catalogo, selezionati)

\* the loop of _seleziona_turni over the members lst (indices into ads)
RECURSIVE seleziona_loop(_, _, _, _, _)
seleziona_loop(lst, ads, catalogo, pool, selezionati) ==
    IF lst = << >> THEN selezionati
    ELSE IF pool # << >>
         THEN LET turno == _scegli_turno_migliore(ads[Head(lst)], pool, catalogo)
              IN  seleziona_loop(Tail(lst), ads, catalogo, list_remove(pool, turno),
                                 Append(selezionati, turno))
         ELSE IF catalogo # << >>
              THEN seleziona_loop(Tail(lst), ads, catalogo, Tail(catalogo),
                                  Append(selezionati, catalogo[1]))
              ELSE seleziona_loop(Tail(lst), ads, catalogo, catalogo, selezionati)

_seleziona_turni(lst, ads, catalogo) == seleziona_loop(lst, ads, catalogo, catalogo, << >>)

\* the sort key of a member on day data of week w
chiave(a, data, w, catalogo) ==
    <<get_ore_settimana(a, w), _get_priorita_turno(a, data, catalogo)>>

\* variant: k1 < k2, equal keys change places
chiave_lt(k1, k2) == k1[1] < k2[1] \/ (k1[1] = k2[1] /\ k1[2] < k2[2])

\* tuple comparison k1 <= k2 of Python
chiave_le(k1, k2) == k1[1] < k2[1] \/ (k1[1] = k2[1] /\ k1[2] <= k2[2])

\* list.sort(key=...): stable, by insertion; lst holds indices, chiavi their keys
RECURSIVE sort_stabile(_, _)
sort_stabile(lst, chiavi) ==
    IF lst = << >> THEN << >>
    ELSE LET n == Len(lst)
             x == lst[n]
             prima == sort_stabile(SubSeq(lst, 1, n - 1), chiavi)
             k == Cardinality({j \in DOMAIN prima : chiave_le(chiavi[prima[j]], chiavi[x])})
         IN  SubSeq(prima, 1, k) \o <<x>> \o SubSeq(prima, k + 1, Len(prima))

\* [a for a in self.addetti if a.puo_lavorare(data)], as indices into ads
RECURSIVE filtra_disponibili(_, _, _)
filtra_disponibili(ads, data, i) ==
    IF i > Len(ads) THEN << >>
    ELSE (IF puo_lavorare(ads[i], data) THEN <<i>> ELSE << >>)
         \o filtra_disponibili(ads, data, i + 1)

zip(xs, ys) ==
    [i \in 1..(IF Len(xs) < Len(ys) THEN Len(xs) ELSE Len(ys)) |-> <<xs[i], ys[i]>>]

\* lines 230-247 of pianifica_turni: the pairs (member, candidate shift) of day data
coppie_del_giorno(ads, catalogo, data) ==
    LET w == get_numero_settimana(data)
        disponibili == filtra_disponibili(ads, data, 1)
        chiavi == [i \in DOMAIN ads |-> chiave(ads[i], data, w, catalogo)]
        ordinati == sort_stabile(disponibili, chiavi)
    IN  IF disponibili = << >> THEN << >>
        ELSE zip(ordinati, _seleziona_turni(ordinati, ads, catalogo))

\* variant: the assignment map is not emptied
reset_solo_ore(a) == [a EXCEPT !.ore_per_settimana = << >>]

\* variant: the ledger is not emptied
reset_solo_turni(a) == [a EXCEPT !.turni_assegnati = << >>]

\* variant: the member is rebuilt from its contract alone
reset_addetto_come_nuovo(a) ==
    Addetto(a.nome, a.ore_contratto, a.ore_max_settimanale, a.straordinario, {}, << >>)

\* lines 221-224: the reset of one member
reset_addetto(a) == [a EXCEPT !.turni_assegnati = << >>, !.ore_per_settimana = << >>]

\* variant: the pair is assigned without asking puo_aggiungere_ore_settimana
assegna_coppia_senza_controllo(st, data, coppia) ==
    LET i == coppia[1]
        turno == coppia[2]
        a == st.ads[i]
        w == get_numero_settimana(data)
    IN  [ads |-> [st.ads EXCEPT ![i] =
                     add_ore_settimana(
                         [a EXCEPT !.turni_assegnati = DictSet(@, data, turno)],
                         w, turno.ore)],
         pian |-> [st.pian EXCEPT ![data] = DictSet(@, a.nome, turno)]]

\* variant: line 251, add_ore_settimana, is left out
assegna_coppia_senza_registro(st, data, coppia) ==
    LET i == coppia[1]
        turno == coppia[2]
        a == st.ads[i]
        w == get_numero_settimana(data)
    IN  IF puo_aggiungere_ore_settimana(a, w, turno.ore)
        THEN [ads |-> [st.ads EXCEPT ![i] =
                          [a EXCEPT !.turni_assegnati = DictSet(@, data, turno)]],
              pian |-> [st.pian EXCEPT ![data] = DictSet(@, a.nome, turno)]]
        ELSE st

\* variant: line 252, the entry of the Schedule, is left out
assegna_coppia_solo_addetto(st, data, coppia) ==
    LET i == coppia[1]
        turno == coppia[2]
        a == st.ads[i]
        w == get_numero_settimana(data)
    IN  IF puo_aggiungere_ore_settimana(a, w, turno.ore)
        THEN [ads |-> [st.ads EXCEPT ![i] =
                          add_ore_settimana(
                              [a EXCEPT !.turni_assegnati = DictSet(@, data, turno)],
                              w, turno.ore)],
              pian |-> st.pian]
        ELSE st

\* lines 251-254 on one pair: the state is [ads, pian]
assegna_coppia(st, data, coppia) ==
    LET i == coppia[1]
        turno == coppia[2]
        a == st.ads[i]
        w == get_numero_settimana(data)
    IN  IF puo_aggiungere_ore_settimana(a, w, turno.ore)
        THEN [ads |-> [st.ads EXCEPT ![i] =
                          add_ore_settimana(
                              [a EXCEPT !.turni_assegnati = DictSet(@, data, turno)],
                              w, turno.ore)],
              pian |-> [st.pian EXCEPT ![data] = DictSet(@, a.nome, turno)]]
        ELSE st

\* the for loop of lines 249-254 over the pairs of one day
RECURSIVE assegna_tutte(_, _, _)
assegna_tutte(st, data, coppie) ==
    IF coppie = << >> THEN st
    ELSE assegna_tutte(assegna_coppia(st, data, Head(coppie)), data, Tail(coppie))

\* the for loop of lines 229-254 over the days gg[i..]; the roster of st is
\* looked at first so that each day is computed from a finished state (a roster
\* without members gets no assignment on any day)
RECURSIVE pianifica_da(_, _, _, _)
pianifica_da(st, catalogo, gg, i) ==
    IF Len(st.ads) = 0 \/ i > Len(gg) THEN st
    ELSE pianifica_da(
             assegna_tutte(st, gg[i], coppie_del_giorno(st.ads, catalogo, gg[i])),
             catalogo, gg, i + 1)

\* pianifica_turni as one function of a non-empty roster, catalog and month
pianifica_turni(ads, catalogo, a, m) ==
    LET gg == get_giorni_mese(a, m)
    IN  pianifica_da([ads |-> [i \in DOMAIN ads |-> reset_addetto(ads[i])],
                      pian |-> [d \in {gg[i] : i \in DOMAIN gg} |-> << >>]],
                     catalogo, gg, 1)

(***************************************************************************)
(* TurnoManager.genera_statistiche                                         *)
(***************************************************************************)
\* variant: sum(dict) adds up the keys, the week numbers
RECURSIVE somma_chiavi(_)
somma_chiavi(dct) ==
    IF dct = << >> THEN 0 ELSE dct[1][1] + somma_chiavi(Tail(dct))

\* sum(dict.values())
RECURSIVE somma_valori(_)
somma_valori(dct) ==
    IF dct = << >> THEN 0 ELSE dct[1][2] + somma_valori(Tail(dct))

\* the keys of self.pianificazione in insertion order: the order of giorni
RECURSIVE date_in_ordine(_)
date_in_ordine(S) ==
    IF S = {} THEN << >>
    ELSE LET prima == CHOOSE d \in S : \A e \in S : toordinal(d) <= toordinal(e)
         IN  <<prima>> \o date_in_ordine(S \ {prima})

\* lines 334-339: the loop over the roster from member i on
RECURSIVE statistiche_addetti(_, _, _)
statistiche_addetti(ads, i, st) ==
    IF i > Len(ads) THEN st
    ELSE statistiche_addetti(ads, i + 1,
             [st EXCEPT
                 !.ore_totali_per_addetto =
                     DictSet(@, ads[i].nome, somma_valori(ads[i].ore_per_settimana)),
                 !.ore_per_settimana = DictSet(@, ads[i].nome, ads[i].ore_per_settimana),
                 !.giorni_lavorati_per_addetto =
                     DictSet(@, ads[i].nome, Len(ads[i].turni_assegnati))])

\* lines 346-349: the loop over the names of one Sunday
RECURSIVE conta_domenica(_, _)
conta_domenica(assegnazioni, dettaglio) ==
    IF assegnazioni = << >> THEN dettaglio
    ELSE LET nome == assegnazioni[1][1]
             zero == IF DictHas(dettaglio, nome) THEN dettaglio
                     ELSE DictSet(dettaglio, nome, 0)
         IN  conta_domenica(Tail(assegnazioni),
                            DictSet(zero, nome, DictGet(zero, nome) + 1))

\* variant: a Sunday counts once in the total, however many members worked
domenica_del_giorno_una(st, data, assegnazioni) ==
    IF assegnazioni # << >> /\ is_domenica(data)
    THEN [st EXCEPT !.domeniche_lavorate = @ + 1,
                    !.dettaglio_domeniche = conta_domenica(assegnazioni, @)]
    ELSE st

\* lines 343-349: one entry of self.pianificazione
domenica_del_giorno(st, data, assegnazioni) ==
    IF assegnazioni # << >> /\ is_domenica(data)
    THEN [st EXCEPT !.domeniche_lavorate = @ + Len(assegnazioni),
                    !.dettaglio_domeniche = conta_domenica(assegnazioni, @)]
    ELSE st

\* lines 342-349: the loop over self.pianificazione.items() from entry k on
RECURSIVE statistiche_domeniche(_, _, _, _)
statistiche_domeniche(pian, date, k, st) ==
    IF k > Len(date) THEN st
    ELSE statistiche_domeniche(pian, date, k + 1,
                               domenica_del_giorno(st, date[k], pian[date[k]]))

genera_statistiche(ads, pian) ==
    LET vuote == [ore_totali_per_addetto |-> << >>,
                  ore_per_settimana |-> << >>,
                  giorni_lavorati_per_addetto |-> << >>,
                  domeniche_lavorate |-> 0,
                  dettaglio_domeniche |-> << >>]
    IN  statistiche_domeniche(pian, date_in_ordine(DOMAIN pian), 1,
                              statistiche_addetti(ads, 1, vuote))

(***************************************************************************)
(* DataManager: the JSON document and its conversions                      *)
(*                                                                         *)
(* An ISO string is held as the sequence of its numeric fields: a date     *)
(* gives <<year, month, day>>, a datetime <<year, month, day, h, m, s>>.   *)
(***************************************************************************)
\* d.isoformat() of an element of ferie_permessi
isoformat(f) ==
    <<f.data.anno, f.data.mese, f.data.giorno>>
        \o (IF f.tipo = "datetime" THEN <<0, 0, 0>> ELSE << >>)

\* data.isoformat() of a key of the Schedule, a datetime at midnight
isoformat_datetime(d) == <<d.anno, d.mese, d.giorno, 0, 0, 0>>

\* datetime.fromisoformat: both forms parse, a date gives midnight
fromisoformat(str) == Data(str[1], str[2], str[3])

\* sorted(list(s)) of a set of integers
RECURSIVE sorted(_)
sorted(S) ==
    IF S = {} THEN << >>
    ELSE LET primo == CHOOSE x \in S : \A y \in S : x <= y
         IN  <<primo>> \o sorted(S \ {primo})

_serializza_addetti(ads) ==
    [i \in DOMAIN ads |->
        [nome |-> ads[i].nome,
         ore_contratto |-> ads[i].ore_contratto,
         ore_max_settimanale |-> ads[i].ore_max_settimanale,
         straordinario |-> ads[i].straordinario,
         giorni_riposo |-> sorted(ads[i].giorni_riposo),
         ferie_permessi |-> [j \in DOMAIN ads[i].ferie_permessi |->
                                isoformat(ads[i].ferie_permessi[j])]]]

\* Addetto.aggiungi_ferie: appended unless an equal element is in the list
aggiungi_ferie(ferie, f) ==
    IF \E j \in DOMAIN ferie : ferie[j] = f THEN ferie ELSE Append(ferie, f)

\* lines 119-125: datetime.fromisoformat(feria_str).date() for each string
RECURSIVE carica_ferie(_, _)
carica_ferie(stringhe, ferie) ==
    IF stringhe = << >> THEN ferie
    ELSE carica_ferie(Tail(stringhe),
             aggiungi_ferie(ferie, Feria("date", fromisoformat(Head(stringhe)))))

_deserializza_addetti(dati) ==
    [i \in DOMAIN dati |->
        Addetto(dati[i].nome, dati[i].ore_contratto, dati[i].ore_max_settimanale,
                dati[i].straordinario,
                {dati[i].giorni_riposo[j] : j \in DOMAIN dati[i].giorni_riposo},
                carica_ferie(dati[i].ferie_permessi, << >>))]

_serializza_turni(catalogo) ==
    [i \in DOMAIN catalogo |->
        [nome |-> catalogo[i].nome, ora_inizio |-> catalogo[i].ora_inizio,
         ora_fine |-> catalogo[i].ora_fine]]

_deserializza_turni(dati) ==
    [i \in DOMAIN dati |-> Turno(dati[i].nome, dati[i].ora_inizio, dati[i].ora_fine)]

\* the Schedule as {ISO string: {member name: shift name}}
_serializza_pianificazione(pian) ==
    [str \in {isoformat_datetime(d) : d \in DOMAIN pian} |->
        [j \in DOMAIN pian[fromisoformat(str)] |->
            <<pian[fromisoformat(str)][j][1], pian[fromisoformat(str)][j][2].nome>>]]

\* the keys of turni_per_nome
NomiTurni(catalogo) == {catalogo[i].nome : i \in DOMAIN catalogo}

\* turni_per_nome = {turno.nome: turno for turno in turni}: the last of a name wins
turni_per_nome(catalogo, nome) ==
    catalogo[CHOOSE i \in DOMAIN catalogo :
                 catalogo[i].nome = nome
                 /\ \A j \in DOMAIN catalogo : catalogo[j].nome = nome => j <= i]

\* lines 209-212: the entries of one date whose shift name is in the catalog
RECURSIVE risolvi_assegnazioni(_, _)
risolvi_assegnazioni(assegnazioni, catalogo) ==
    IF assegnazioni = << >> THEN << >>
    ELSE (IF assegnazioni[1][2] \in NomiTurni(catalogo)
          THEN <<<<assegnazioni[1][1], turni_per_nome(catalogo, assegnazioni[1][2])>>>>
          ELSE << >>)
         \o risolvi_assegnazioni(Tail(assegnazioni), catalogo)

\* variant: an entry with an unknown shift name makes the whole date fail
_deserializza_pianificazione_rigida(dati, catalogo) ==
    [d \in {fromisoformat(str) : str \in {x \in DOMAIN dati :
                 /\ risolvi_assegnazioni(dati[x], catalogo) # << >>
                 /\ Len(risolvi_assegnazioni(dati[x], catalogo)) = Len(dati[x])}} |->
        risolvi_assegnazioni(dati[isoformat_datetime(d)], catalogo)]

_deserializza_pianificazione(dati, catalogo) ==
    [d \in {fromisoformat(str) : str \in {x \in DOMAIN dati :
                 risolvi_assegnazioni(dati[x], catalogo) # << >>}} |->
        risolvi_assegnazioni(dati[isoformat_datetime(d)], catalogo)]

\* the document of salva_dati, without the time stamp
documento(ads, catalogo, pian) ==
    [addetti |-> _serializza_addetti(ads),
     turni |-> _serializza_turni(catalogo),
     pianificazione |-> _serializza_pianificazione(pian)]

\* the tuple of carica_dati for a document
carica_documento(dati) ==
    LET catalogo == _deserializza_turni(dati.turni)
    IN  [addetti |-> _deserializza_addetti(dati.addetti),
         turni |-> catalogo,
         pianificazione |-> _deserializza_pianificazione(dati.pianificazione, catalogo)]

(***************************************************************************)
(* The configurations the model draws from                                 *)
(***************************************************************************)
AddettoScelte(nome) ==
    { Addetto(nome, 36, 40, TRUE, {}, << >>),
      Addetto(nome, 20, 40, FALSE, {0},
              <<Feria("datetime", Data(2025, 1, 15)), Feria("datetime", Data(2025, 12, 23))>>),
      Addetto(nome, 4, 6, FALSE, {}, << >>) }

NomiDi(seq) == {seq[i].nome : i \in DOMAIN seq}

\* rosters of at most n members with pairwise different names
RECURSIVE RosterFino(_)
RosterFino(n) ==
    IF n = 0 THEN {<< >>}
    ELSE LET piccoli == RosterFino(n - 1)
         IN  piccoli \cup
             { Append(r, a) : r \in {q \in piccoli : Len(q) = n - 1},
                              a \in UNION {AddettoScelte(nome) : nome \in Nomi} }

Roster == {r \in RosterFino(MaxAddetti) : Cardinality(NomiDi(r)) = Len(r)}

RECURSIVE CatalogoFino(_)
CatalogoFino(n) ==
    IF n = 0 THEN {<< >>}
    ELSE LET piccoli == CatalogoFino(n - 1)
         IN  piccoli \cup
             { Append(c, t) : c \in {q \in piccoli : Len(q) = n - 1}, t \in TurniScelte }

Catalogo == {c \in CatalogoFino(MaxTurni) : Cardinality(NomiDi(c)) = Len(c)}

(***************************************************************************)
(* State machine                                                           *)
(***************************************************************************)
\* TurnoManager.__init__, followed by the roster, the catalog and the month the
\* caller sets up before the first run
Init ==
    /\ \E am \in Mesi : anno = am[1] /\ mese = am[2]
    /\ addetti \in Roster
    /\ turni \in Catalogo
    /\ pianificazione = << >>
    /\ pc = "idle"
    /\ giorni = << >>
    /\ idx = 0
    /\ coda = << >>
    /\ esito = "nessuno"
    /\ processati = << >>
    /\ riuso = FALSE
    /\ modifiche = 0
    /\ stats = << >>
    /\ file = << >>
    /\ caricati = << >>
    /\ corse = << >>
    /\ scambi = << >>

locali == <<giorni, idx, coda>>
configurazione == <<anno, mese, addetti, turni>>

\* MenuInterattivo.aggiungi_addetto: a new member with an unused name
AggiungiAddetto(a) ==
    /\ pc = "idle"
    /\ modifiche < MaxModifiche
    /\ Len(addetti) < MaxAddetti
    /\ a.nome \notin NomiDi(addetti)
    /\ addetti' = Append(addetti, a)
    /\ modifiche' = modifiche + 1
    /\ UNCHANGED <<anno, mese, turni, pianificazione, pc, locali, esito, processati, riuso>>
    /\ stats' = << >>
    /\ UNCHANGED <<file, caricati, corse, scambi>>

\* TurnoManager.rimuovi_addetto
RimuoviAddetto(nome) ==
    /\ pc = "idle"
    /\ modifiche < MaxModifiche
    /\ nome \in NomiDi(addetti)
    /\ addetti' = SelectSeq(addetti, LAMBDA a : a.nome # nome)
    /\ modifiche' = modifiche + 1
    /\ UNCHANGED <<anno, mese, turni, pianificazione, pc, locali, esito, processati, riuso>>
    /\ stats' = << >>
    /\ UNCHANGED <<file, caricati, corse, scambi>>

\* MenuInterattivo.aggiungi_turno: a new shift type with an unused name
AggiungiTurno(t) ==
    /\ pc = "idle"
    /\ modifiche < MaxModifiche
    /\ Len(turni) < MaxTurni
    /\ t.nome \notin NomiDi(turni)
    /\ turni' = Append(turni, t)
    /\ modifiche' = modifiche + 1
    /\ UNCHANGED <<anno, mese, addetti, pianificazione, pc, locali, esito, processati, riuso>>
    /\ stats' = << >>
    /\ UNCHANGED <<file, caricati, corse, scambi>>

\* TurnoManager.rimuovi_turno
RimuoviTurno(nome) ==
    /\ pc = "idle"
    /\ modifiche < MaxModifiche
    /\ nome \in NomiDi(turni)
    /\ turni' = SelectSeq(turni, LAMBDA t : t.nome # nome)
    /\ modifiche' = modifiche + 1
    /\ UNCHANGED <<anno, mese, addetti, pianificazione, pc, locali, esito, processati, riuso>>
    /\ stats' = << >>
    /\ UNCHANGED <<file, caricati, corse, scambi>>

\* MenuInterattivo.impostazioni_mese
ImpostaMese(a, m) ==
    /\ pc = "idle"
    /\ modifiche < MaxModifiche
    /\ m \in 1..12 /\ a >= 2000
    /\ <<a, m>> # <<anno, mese>>
    /\ anno' = a
    /\ mese' = m
    /\ modifiche' = modifiche + 1
    /\ UNCHANGED <<addetti, turni, pianificazione, pc, locali, esito, processati, riuso>>
    /\ stats' = << >>
    /\ UNCHANGED <<file, caricati, corse, scambi>>

\* variant: only the roster is looked at
configurazione_valida_solo_addetti(ads, catalogo) == ads # << >>

\* pianifica_turni, line 217: "not self.addetti or not self.turni" is false
configurazione_valida(ads, catalogo) == ~(ads = << >> \/ catalogo = << >>)

\* pianifica_turni, lines 215-219: the call with an empty roster or catalog
PianificaErrore ==
    /\ pc = "idle"
    /\ ~configurazione_valida(addetti, turni)
    /\ esito' = "False"
    /\ processati' = << >>
    /\ UNCHANGED <<configurazione, pianificazione, pc, locali, riuso, modifiche>>
    /\ stats' = << >>
    /\ UNCHANGED <<file, caricati, corse, scambi>>

\* pianifica_turni, lines 215-226: the days, the reset and the empty Schedule
PianificaInizio ==
    /\ pc = "idle"
    /\ configurazione_valida(addetti, turni)
    /\ giorni' = get_giorni_mese(anno, mese)
    /\ addetti' = [i \in DOMAIN addetti |-> reset_addetto(addetti[i])]
    /\ pianificazione' = [d \in {giorni'[i] : i \in DOMAIN giorni'} |-> << >>]
    /\ pc' = "giorni"
    /\ idx' = 0
    /\ coda' = << >>
    /\ esito' = "in_corso"
    /\ processati' = << >>
    /\ riuso' = (\/ pianificazione # << >>
                 \/ \E i \in DOMAIN addetti : addetti[i].turni_assegnati # << >>)
    /\ modifiche' = 0
    /\ UNCHANGED <<anno, mese, turni>>
    /\ stats' = << >>
    /\ UNCHANGED <<file, caricati, corse, scambi>>

\* pianifica_turni, lines 229-247: the loop takes the next day
GiornoInizio ==
    /\ pc = "giorni"
    /\ idx < Len(giorni)
    /\ LET data == giorni[idx + 1]
           coppie == coppie_del_giorno(addetti, turni, data)
       IN  /\ idx' = idx + 1
           /\ processati' = Append(processati, data)
           /\ coda' = coppie
           /\ pc' = IF coppie = << >> THEN "giorni" ELSE "zip"
    /\ UNCHANGED <<configurazione, pianificazione, giorni, esito, riuso, modifiche>>
    /\ stats' = << >>
    /\ UNCHANGED <<file, caricati, corse, scambi>>

\* pianifica_turni, lines 249-254: one pair of the zip
Assegna ==
    /\ pc = "zip"
    /\ coda # << >>
    /\ LET st == assegna_coppia([ads |-> addetti, pian |-> pianificazione],
                                giorni[idx], Head(coda))
       IN  /\ addetti' = st.ads
           /\ pianificazione' = st.pian
    /\ coda' = Tail(coda)
    /\ pc' = IF Tail(coda) = << >> THEN "giorni" ELSE "zip"
    /\ UNCHANGED <<anno, mese, turni, giorni, idx, esito, processati, riuso, modifiche>>
    /\ stats' = << >>
    /\ UNCHANGED <<file, caricati, corse, scambi>>

\* pianifica_turni, line 256: return True
PianificaFine ==
    /\ pc = "giorni"
    /\ idx = Len(giorni)
    /\ pc' = "idle"
    /\ esito' = "True"
    /\ giorni' = << >>
    /\ idx' = 0
    /\ coda' = << >>
    /\ UNCHANGED <<configurazione, pianificazione, processati, riuso, modifiche>>
    /\ stats' = << >>
    /\ UNCHANGED <<file, caricati, corse, scambi>>

\* TurnoManager.genera_statistiche, called at rest; the caller holds the result
GeneraStatistiche ==
    /\ pc = "idle"
    /\ stats' = <<genera_statistiche(addetti, pianificazione)>>
    /\ UNCHANGED <<configurazione, pianificazione, pc, locali, esito, processati, riuso,
                   modifiche, file, caricati, corse, scambi>>

Passo == PianificaInizio \/ GiornoInizio \/ Assegna \/ PianificaFine

Next ==
    \/ \E a \in UNION {AddettoScelte(nome) : nome \in Nomi} : AggiungiAddetto(a)
    \/ \E nome \in Nomi : RimuoviAddetto(nome)
    \/ \E t \in TurniScelte : AggiungiTurno(t)
    \/ \E t \in TurniScelte : RimuoviTurno(t.nome)
    \/ \E am \in Mesi : ImpostaMese(am[1], am[2])
    \/ PianificaErrore
    \/ GeneraStatistiche
    \/ Passo

Spec == Init /\ [][Next]_vars

TypeOK ==
    /\ pc \in {"idle", "giorni", "zip"}
    /\ esito \in {"nessuno", "in_corso", "True", "False"}
    /\ idx \in 0..31
    /\ modifiche \in 0..MaxModifiche

(***************************************************************************)
(* The calendar alone: get_giorni_mese called for any month of some years  *)
(***************************************************************************)
InitCalendario ==
    /\ anno \in AnniCalendario
    /\ mese \in 1..12
    /\ addetti = << >>
    /\ turni = << >>
    /\ pianificazione = << >>
    /\ pc = "idle"
    /\ giorni = << >>
    /\ idx = 0
    /\ coda = << >>
    /\ esito = "nessuno"
    /\ processati = << >>
    /\ riuso = FALSE
    /\ modifiche = 0
    /\ stats = << >>
    /\ file = << >>
    /\ caricati = << >>
    /\ corse = << >>
    /\ scambi = << >>

\* a caller outside a run asks for the days of the month and keeps the list
ChiamaGetGiorniMese ==
    /\ pc = "idle"
    /\ giorni = << >>
    /\ giorni' = get_giorni_mese(anno, mese)
    /\ UNCHANGED <<configurazione, pianificazione, pc, idx, coda, esito, processati,
                   riuso, modifiche, stats, file, caricati, corse, scambi>>

SpecCalendario == InitCalendario /\ [][ChiamaGetGiorniMese]_vars

(***************************************************************************)
(* Persistence: the caller saves the manager's roster, catalog and         *)
(* Schedule with DataManager.salva_dati and reads them with carica_dati.   *)
(* What carica_dati returns depends on the file alone, so the manager is   *)
(* followed up to the first save or load, and the file up to the first     *)
(* load, and no further.                                                   *)
(***************************************************************************)
\* DataManager.salva_dati(manager.addetti, manager.turni, manager.pianificazione)
SalvaDati ==
    /\ pc = "idle"
    /\ file' = <<documento(addetti, turni, pianificazione)>>
    /\ stats' = << >>
    /\ UNCHANGED <<configurazione, pianificazione, pc, locali, esito, processati, riuso,
                   modifiche, caricati, corse, scambi>>

\* DataManager.carica_dati: ([], [], {}) when there is no file
CaricaDati ==
    /\ pc = "idle"
    /\ caricati' = IF file = << >>
                   THEN <<[addetti |-> << >>, turni |-> << >>, pianificazione |-> << >>]>>
                   ELSE <<carica_documento(file[1])>>
    /\ stats' = << >>
    /\ UNCHANGED <<configurazione, pianificazione, pc, locali, esito, processati, riuso,
                   modifiche, file, corse, scambi>>

NextPersistenza ==
    \/ file = << >> /\ caricati = << >> /\ Next
    \/ caricati = << >> /\ SalvaDati
    \/ CaricaDati

SpecPersistenza == Init /\ [][NextPersistenza]_vars

(***************************************************************************)
(* Runs of a roster of three members, more than the shift types            *)
(***************************************************************************)
RosterDiTre ==
    {<<a, b, c>> : a \in AddettoScelte("A"), b \in AddettoScelte("B"),
                   c \in AddettoScelte("C")}

\* TurnoManager.__init__, followed by three members and a catalog, January 2025
InitTre ==
    /\ anno = 2025 /\ mese = 1
    /\ addetti \in RosterDiTre
    /\ turni \in {c \in Catalogo : c # << >>}
    /\ pianificazione = << >>
    /\ pc = "idle"
    /\ giorni = << >>
    /\ idx = 0
    /\ coda = << >>
    /\ esito = "nessuno"
    /\ processati = << >>
    /\ riuso = FALSE
    /\ modifiche = 0
    /\ stats = << >>
    /\ file = << >>
    /\ caricati = << >>
    /\ corse = << >>
    /\ scambi = << >>

SpecTre == InitTre /\ [][Passo]_vars

(***************************************************************************)
(* Runs of a roster of four members, twice the shift types of a catalog    *)
(***************************************************************************)
RosterDiQuattro ==
    {<<a, b, c, d>> : a \in AddettoScelte("A"), b \in AddettoScelte("B"),
                      c \in {Addetto("C", 36, 40, TRUE, {}, << >>)},
                      d \in AddettoScelte("D")}

\* TurnoManager.__init__, followed by four members and a catalog, January 2025
InitQuattro ==
    /\ anno = 2025 /\ mese = 1
    /\ addetti \in RosterDiQuattro
    /\ turni \in {c \in Catalogo : c # << >>}
    /\ pianificazione = << >>
    /\ pc = "idle"
    /\ giorni = << >>
    /\ idx = 0
    /\ coda = << >>
    /\ esito = "nessuno"
    /\ processati = << >>
    /\ riuso = FALSE
    /\ modifiche = 0
    /\ stats = << >>
    /\ file = << >>
    /\ caricati = << >>
    /\ corse = << >>
    /\ scambi = << >>

SpecQuattro == InitQuattro /\ [][Passo]_vars

(***************************************************************************)
(* The shift type alone: Turno built from any two times of the day         *)
(***************************************************************************)
OreScelte == {0, 6, 8, 14, 22, 23}
MinutiScelti == {0, 30, 59}

\* MenuInterattivo.aggiungi_turno on an empty catalog, the times being valid %H:%M
CreaTurno(hi, mi, hf, mf) ==
    /\ pc = "idle"
    /\ turni = << >>
    /\ turni' = <<Turno("T", minuti(hi, mi), minuti(hf, mf))>>
    /\ UNCHANGED <<anno, mese, addetti, pianificazione, pc, locali, esito, processati,
                   riuso, modifiche, stats, file, caricati, corse, scambi>>

NextTurno ==
    \E hi \in OreScelte, hf \in OreScelte, mi \in MinutiScelti, mf \in MinutiScelti :
        CreaTurno(hi, mi, hf, mf)

\* TurnoManager.__init__ with the month of the default arguments left as set
InitTurno == InitCalendario /\ anno = 2025 /\ mese = 1

SpecTurno == InitTurno /\ [][NextTurno]_vars

(***************************************************************************)
(* Two pianifica_turni calls over the same Addetto objects. Nothing in the *)
(* code keeps two calls apart, and a second TurnoManager may hold the very *)
(* Addetto objects of the first (aggiungi_addetto appends the object it is *)
(* given): each manager has its own pianificazione and each call its own   *)
(* locals, while ore_per_settimana and turni_assegnati are shared. The two *)
(* managers have the same one-shift catalog and month, and the roster is   *)
(* one member without rest days. A call is stepped by whole days: its      *)
(* reset, each day of its loop, its return. The call that starts first is  *)
(* call 1; a call is preempted when the other call steps while it is in    *)
(* progress, at most MaxPrelazioni times in all.                           *)
(***************************************************************************)
Corse == {1, 2}
Altra(r) == 3 - r

InitConcorrente ==
    /\ anno = 2025
    /\ mese = 1
    /\ addetti \in {ros \in RosterFino(1) : ros # << >> /\ ros[1].giorni_riposo = {}}
    /\ turni = <<Mattina>>
    /\ pianificazione = << >>
    /\ pc = "idle"
    /\ giorni = << >>
    /\ idx = 0
    /\ coda = << >>
    /\ esito = "nessuno"
    /\ processati = << >>
    /\ riuso = FALSE
    /\ modifiche = 0
    /\ stats = << >>
    /\ file = << >>
    /\ caricati = << >>
    /\ corse = [r \in Corse |-> [pc |-> "idle", esito |-> "nessuno", giorni |-> << >>,
                                 idx |-> 0, pianificazione |-> << >>]]
    /\ scambi = [ultima |-> 0, prelazioni |-> 0, intrecciate |-> FALSE]

\* call r takes a step: the other call, if in progress and the last to step, is preempted
Prelazione(r) == scambi.ultima = Altra(r) /\ corse[Altra(r)].esito = "in_corso"

Schedulata(r) ==
    /\ Prelazione(r) => scambi.prelazioni < MaxPrelazioni
    /\ scambi' = [ultima |-> r,
                  prelazioni |-> scambi.prelazioni + (IF Prelazione(r) THEN 1 ELSE 0),
                  intrecciate |-> scambi.intrecciate \/ corse[Altra(r)].esito = "in_corso"]

fermi == <<pianificazione, pc, giorni, idx, coda, esito, processati, riuso, modifiche,
           stats, file, caricati>>

\* pianifica_turni of manager r, lines 215-226
CorsaInizio(r) ==
    /\ corse[r].esito = "nessuno"
    /\ r = 2 => corse[1].esito # "nessuno"
    /\ configurazione_valida(addetti, turni)
    /\ Schedulata(r)
    /\ addetti' = [i \in DOMAIN addetti |-> reset_addetto(addetti[i])]
    /\ LET gg == get_giorni_mese(anno, mese)
       IN  corse' = [corse EXCEPT ![r] =
                        [pc |-> "giorni", esito |-> "in_corso", giorni |-> gg, idx |-> 0,
                         pianificazione |-> [d \in {gg[i] : i \in DOMAIN gg} |-> << >>]]]
    /\ UNCHANGED <<anno, mese, turni, fermi>>

\* pianifica_turni of manager r, lines 229-254: one day of the loop
CorsaGiorno(r) ==
    /\ corse[r].pc = "giorni"
    /\ corse[r].idx < Len(corse[r].giorni)
    /\ Schedulata(r)
    /\ LET data == corse[r].giorni[corse[r].idx + 1]
           st == assegna_tutte([ads |-> addetti, pian |-> corse[r].pianificazione],
                               data, coppie_del_giorno(addetti, turni, data))
       IN  /\ addetti' = st.ads
           /\ corse' = [corse EXCEPT ![r].idx = @ + 1, ![r].pianificazione = st.pian]
    /\ UNCHANGED <<anno, mese, turni, fermi>>

\* pianifica_turni of manager r, line 256: return True
CorsaFine(r) ==
    /\ corse[r].pc = "giorni"
    /\ corse[r].idx = Len(corse[r].giorni)
    /\ Schedulata(r)
    /\ corse' = [corse EXCEPT ![r].pc = "idle", ![r].esito = "True"]
    /\ UNCHANGED <<configurazione, fermi>>

NextConcorrente == \E r \in Corse : CorsaInizio(r) \/ CorsaGiorno(r) \/ CorsaFine(r)

SpecConcorrente == InitConcorrente /\ [][NextConcorrente]_vars

(***************************************************************************)
(* Vocabulary of the properties                                            *)
(***************************************************************************)
\* a run is in progress, or has returned True and nothing was changed since
InCorsoOCompletata == esito \in {"in_corso", "True"} /\ modifiche = 0

\* pianifica_turni has just returned True
Completata == pc = "idle" /\ esito = "True" /\ modifiche = 0

\* the eligible days of a month, stated from the calendar and the holiday list
GiorniEleggibili(a, m) ==
    {Data(a, m, g) : g \in 1..monthrange(a, m)}
        \ {Data(a, m, g) : g \in {f[2] : f \in {h \in GIORNI_FESTIVI : h[1] = m}}}

InsiemeDi(seq) == {seq[i] : i \in DOMAIN seq}

Crescente(seq) == \A i, j \in DOMAIN seq : i < j => toordinal(seq[i]) < toordinal(seq[j])

\* minutes and days the member holds in ISO week w, read from its own records
MinutiRegistrati(a, w) ==
    IF \E j \in DOMAIN a.ore_per_settimana : a.ore_per_settimana[j][1] = w
    THEN a.ore_per_settimana[CHOOSE j \in DOMAIN a.ore_per_settimana :
                                 a.ore_per_settimana[j][1] = w][2]
    ELSE 0

GiorniAssegnati(a) == {a.turni_assegnati[j][1] : j \in DOMAIN a.turni_assegnati}

NomiNelGiorno(d) == {pianificazione[d][j][1] : j \in DOMAIN pianificazione[d]}

\* the member as a freshly constructed object
Nuovo(a) ==
    Addetto(a.nome, a.ore_contratto, a.ore_max_settimanale, a.straordinario,
            a.giorni_riposo, a.ferie_permessi)

(***************************************************************************)
(* C1: weekly hour ceiling. In every state, during and after a run, no      *)
(* member holds in any ISO week more minutes than ore_max_settimanale      *)
(* hours.                                                                  *)
(***************************************************************************)
C1_TettoSettimanale ==
    \A i \in DOMAIN addetti :
        \A j \in DOMAIN addetti[i].ore_per_settimana :
            addetti[i].ore_per_settimana[j][2]
                <= addetti[i].ore_max_settimanale * MinutiPerOra

\* a member stands exactly at a 40 hour ceiling while days remain to be taken
C1_Witness ==
    /\ pc = "giorni" /\ idx < Len(giorni)
    /\ \E i \in DOMAIN addetti :
          /\ addetti[i].ore_max_settimanale = 40
          /\ MinutiRegistrati(addetti[i], get_numero_settimana(giorni[idx + 1]))
                 = 40 * MinutiPerOra

(***************************************************************************)
(* C2: rest days and absences are honoured. During a run and after it, a   *)
(* member has no entry in the Schedule and no assignment on a date whose   *)
(* weekday is one of its rest days or that is one of its absences.         *)
(***************************************************************************)
C2_RiposoEFerie ==
    InCorsoOCompletata =>
        \A i \in DOMAIN addetti : \A d \in DOMAIN pianificazione :
            (weekday(d) \in addetti[i].giorni_riposo
                 \/ Feria("datetime", d) \in InsiemeDi(addetti[i].ferie_permessi))
            => /\ addetti[i].nome \notin NomiNelGiorno(d)
               /\ d \notin GiorniAssegnati(addetti[i])

\* a finished run in which a colleague works on a member's absence and on its rest day
C2_Witness ==
    /\ Completata
    /\ \E i \in DOMAIN addetti : \E d, e \in DOMAIN pianificazione :
          /\ Feria("datetime", d) \in InsiemeDi(addetti[i].ferie_permessi)
          /\ weekday(e) \in addetti[i].giorni_riposo
          /\ pianificazione[d] # << >>
          /\ pianificazione[e] # << >>
          /\ addetti[i].turni_assegnati # << >>

(***************************************************************************)
(* C3: configuration error. A call made with an empty roster or an empty   *)
(* catalog returns False and changes neither the Schedule nor any member:  *)
(* every step taken at rest with such a configuration, other than a        *)
(* configuration change or a statistics query, is that failing call.       *)
(***************************************************************************)
C3_ErroreConfigurazione ==
    [][ (pc = "idle" /\ (addetti = << >> \/ turni = << >>)
            /\ configurazione' = configurazione /\ stats' = << >>)
        => (/\ esito' = "False"
            /\ pc' = "idle"
            /\ pianificazione' = pianificazione
            /\ addetti' = addetti) ]_vars

\* a failed call that found, and left, the Schedule of an earlier run
C3_Witness ==
    /\ esito = "False"
    /\ pc = "idle"
    /\ \E d \in DOMAIN pianificazione : pianificazione[d] # << >>

(***************************************************************************)
(* C4: after a successful run the dates of the Schedule are exactly the    *)
(* eligible days of the target month; a day on which nobody is available   *)
(* or nobody fits keeps its empty mapping and the later days are still     *)
(* processed.                                                              *)
(***************************************************************************)
C4_ChiaviPianificazione ==
    Completata =>
        /\ DOMAIN pianificazione = GiorniEleggibili(anno, mese)
        /\ InsiemeDi(processati) = GiorniEleggibili(anno, mese)
        /\ \A d \in DOMAIN pianificazione :
              (\/ \A i \in DOMAIN addetti : d \notin GiorniAssegnati(addetti[i])
               \/ \A i \in DOMAIN addetti :
                      \/ weekday(d) \in addetti[i].giorni_riposo
                      \/ Feria("datetime", d) \in InsiemeDi(addetti[i].ferie_permessi))
              => pianificazione[d] = << >>

\* a finished run with an empty day that is followed by a day with assignments
C4_Witness ==
    /\ Completata
    /\ \E d, e \in DOMAIN pianificazione :
          /\ toordinal(d) < toordinal(e)
          /\ pianificazione[d] = << >>
          /\ pianificazione[e] # << >>

(***************************************************************************)
(* C5: termination. A call on a non-empty roster and catalog starts the    *)
(* run; the run can always take its next step, every step of it lowers a   *)
(* natural number, and it ends only by returning True with each eligible   *)
(* day of the month taken exactly once, in ascending order of date.        *)
(***************************************************************************)
\* what is left of the run: the pairs of the day and the days not yet taken
Misura ==
    IF pc = "idle" THEN 0
    ELSE 1 + Len(coda) + (Len(giorni) - idx) * (Len(addetti) + 1)

C5_Terminazione ==
    /\ [](pc = "giorni" => idx <= Len(giorni))
    /\ [](pc = "zip" => (coda # << >> /\ idx \in 1..Len(giorni)))
    /\ [](Misura >= 0)
    /\ [][pc # "idle" => Misura' < Misura]_vars
    /\ [][(pc = "idle" /\ addetti # << >> /\ turni # << >> /\ esito' # esito)
             => pc' = "giorni"]_vars
    /\ [][(pc # "idle" /\ pc' = "idle")
             => (/\ esito' = "True"
                 /\ Crescente(processati')
                 /\ InsiemeDi(processati') = GiorniEleggibili(anno, mese)
                 /\ Len(processati') = Cardinality(GiorniEleggibili(anno, mese)))]_vars

\* a run has returned after taking the 30 eligible days of January
C5_Witness ==
    /\ Completata
    /\ mese = 1
    /\ Len(processati) = 30

(***************************************************************************)
(* C6: get_giorni_mese returns, in strictly ascending order and without    *)
(* duplicates, every day of the month except the fixed holidays Jan 1,     *)
(* Apr 20, May 1, Dec 25 and Dec 26; no day is left out for being a        *)
(* Sunday. January 2025 lacks Jan 1 and holds its Sundays 5, 12, 19, 26.   *)
(***************************************************************************)
Festivita == {<<1, 1>>, <<4, 20>>, <<5, 1>>, <<12, 25>>, <<12, 26>>}

C6_GiorniDelMese ==
    giorni # << >> =>
        /\ \A i, j \in DOMAIN giorni : i < j => giorni[i].giorno < giorni[j].giorno
        /\ \A i \in DOMAIN giorni : giorni[i].anno = anno /\ giorni[i].mese = mese
        /\ {giorni[i].giorno : i \in DOMAIN giorni}
               = {g \in 1..monthrange(anno, mese) : <<mese, g>> \notin Festivita}
        /\ \A g \in 1..monthrange(anno, mese) :
              (weekday(Data(anno, mese, g)) = 6 /\ <<mese, g>> \notin Festivita)
              => Data(anno, mese, g) \in InsiemeDi(giorni)
        /\ (anno = 2025 /\ mese = 1)
              => /\ Data(2025, 1, 1) \notin InsiemeDi(giorni)
                 /\ {Data(2025, 1, g) : g \in {5, 12, 19, 26}} \subseteq InsiemeDi(giorni)

\* the list of January 2025: 30 days, the Sunday Jan 5 among them
C6_Witness ==
    /\ anno = 2025 /\ mese = 1
    /\ Len(giorni) = 30
    /\ weekday(Data(2025, 1, 5)) = 6
    /\ Data(2025, 1, 5) \in InsiemeDi(giorni)

(***************************************************************************)
(* C7: determinism and idempotence of the re-run. Whatever an earlier run  *)
(* left in the members and in the Schedule, a finished run holds the       *)
(* Schedule, the ledgers and the assignment maps that the same month,      *)
(* roster and catalog give on freshly constructed members.                 *)
(***************************************************************************)
C7_Rieseguibile ==
    Completata =>
        [ads |-> addetti, pian |-> pianificazione]
            = pianifica_turni([i \in DOMAIN addetti |-> Nuovo(addetti[i])],
                              turni, anno, mese)

\* a run finished on members that held the assignments of an earlier run
C7_Witness ==
    /\ Completata
    /\ riuso
    /\ \E i \in DOMAIN addetti : Len(addetti[i].turni_assegnati) > 1

(***************************************************************************)
(* C8: every run starts by emptying each member's ledger and assignment    *)
(* map; during the run and after it a member holds assignments only on     *)
(* days this run has taken and hours only in the weeks of those days.      *)
(***************************************************************************)
C8_Azzeramento ==
    /\ (pc = "giorni" /\ idx = 0) =>
           \A i \in DOMAIN addetti :
               addetti[i].ore_per_settimana = << >> /\ addetti[i].turni_assegnati = << >>
    /\ InCorsoOCompletata =>
           \A i \in DOMAIN addetti :
               /\ GiorniAssegnati(addetti[i]) \subseteq InsiemeDi(processati)
               /\ {addetti[i].ore_per_settimana[j][1] :
                       j \in DOMAIN addetti[i].ore_per_settimana}
                      \subseteq {isocalendar_week(d) : d \in InsiemeDi(processati)}

\* the state right after the reset of a run that found an earlier Schedule
C8_Witness ==
    /\ pc = "giorni" /\ idx = 0
    /\ riuso
    /\ \A d \in DOMAIN pianificazione : pianificazione[d] = << >>

(***************************************************************************)
(* C9: a member whose weekly maximum is below the duration of every        *)
(* configured shift type is never assigned; a single member of maximum 6   *)
(* hours with a single 8 hour shift type ends the run with every day empty.*)
(***************************************************************************)
C9_MaiAssegnato ==
    InCorsoOCompletata =>
        \A i \in DOMAIN addetti :
            (\A k \in DOMAIN turni :
                 addetti[i].ore_max_settimanale * MinutiPerOra < turni[k].ore)
            => /\ addetti[i].turni_assegnati = << >>
               /\ addetti[i].ore_per_settimana = << >>
               /\ \A d \in DOMAIN pianificazione : addetti[i].nome \notin NomiNelGiorno(d)

\* the run of one member of maximum 6 hours and one 8 hour shift has returned
C9_Witness ==
    /\ Completata
    /\ Len(addetti) = 1 /\ addetti[1].ore_max_settimanale = 6
    /\ Len(turni) = 1 /\ turni[1].ore = 8 * MinutiPerOra
    /\ DOMAIN pianificazione = GiorniEleggibili(anno, mese)
    /\ \A d \in DOMAIN pianificazione : pianificazione[d] = << >>

(***************************************************************************)
(* C10: two members without rest days or absences, of maximum 40 hours,    *)
(* and two 6 hour shift types: in every ISO week with exactly 5 eligible   *)
(* days in the month both members are assigned on the 5 days and hold 30   *)
(* hours each, 60 together.                                                *)
(***************************************************************************)
GiorniDellaSettimana(a, m, w) == {d \in GiorniEleggibili(a, m) : isocalendar_week(d) = w}

SettimaneDaCinque(a, m) ==
    {w \in {isocalendar_week(d) : d \in GiorniEleggibili(a, m)} :
        Cardinality(GiorniDellaSettimana(a, m, w)) = 5}

DueDaQuaranta ==
    /\ Len(addetti) = 2
    /\ \A i \in DOMAIN addetti :
          /\ addetti[i].ore_max_settimanale = 40
          /\ addetti[i].giorni_riposo = {}
          /\ addetti[i].ferie_permessi = << >>
    /\ Len(turni) = 2
    /\ \A k \in DOMAIN turni : turni[k].ore = 6 * MinutiPerOra

C10_SettimanaDaCinque ==
    (Completata /\ DueDaQuaranta) =>
        \A w \in SettimaneDaCinque(anno, mese) :
            /\ \A i \in DOMAIN addetti :
                  /\ GiorniDellaSettimana(anno, mese, w) \subseteq GiorniAssegnati(addetti[i])
                  /\ MinutiRegistrati(addetti[i], w) = 30 * MinutiPerOra
            /\ MinutiRegistrati(addetti[1], w) + MinutiRegistrati(addetti[2], w)
                   = 60 * MinutiPerOra

\* such a run has returned in a month that has a week of exactly 5 eligible days
C10_Witness ==
    /\ Completata /\ DueDaQuaranta
    /\ SettimaneDaCinque(anno, mese) # {}
    /\ \E w \in SettimaneDaCinque(anno, mese) :
          MinutiRegistrati(addetti[1], w) = 30 * MinutiPerOra

(***************************************************************************)
(* C11: the duration of a Turno in minutes is end - start when the end is  *)
(* not before the start and end + 1440 - start when it is; 08:00-14:00     *)
(* lasts 6 hours, 22:00-06:00 lasts 8 hours, the duration is at least 0    *)
(* and below 24 hours, and an end equal to the start gives 0, not 24.      *)
(***************************************************************************)
C11_DurataTurno ==
    \A k \in DOMAIN turni :
        LET s == turni[k].ora_inizio
            e == turni[k].ora_fine
        IN  /\ e >= s => turni[k].ore = e - s
            /\ e < s => turni[k].ore = e + 1440 - s
            /\ turni[k].ore >= 0 /\ turni[k].ore < 24 * 60
            /\ e = s => turni[k].ore = 0
            /\ (s = 8 * 60 /\ e = 14 * 60) => turni[k].ore = 6 * 60
            /\ (s = 22 * 60 /\ e = 6 * 60) => turni[k].ore = 8 * 60

\* the shift 22:00-06:00 has been built and lasts 480 minutes
C11_Witness ==
    /\ Len(turni) = 1
    /\ turni[1].ora_inizio = 22 * 60 /\ turni[1].ora_fine = 6 * 60
    /\ turni[1].ore = 480

(***************************************************************************)
(* C12: the minimum weekly hours and the overtime flag are never consulted *)
(* by the allocation. A finished run holds the Schedule, the ledgers and   *)
(* the assignment maps that the same roster gives when every member's      *)
(* ore_contratto and straordinario are replaced by other values; and a     *)
(* finished run may leave a member below ore_contratto in a week.          *)
(***************************************************************************)
ValoriContratto == {<<0, FALSE>>, <<48, TRUE>>}

ConContratto(a, v) == [a EXCEPT !.ore_contratto = v[1], !.straordinario = v[2]]

Voce(dct, nome) == {dct[j][2] : j \in {k \in DOMAIN dct : dct[k][1] = nome}}

RECURSIVE SommaSu(_, _)
SommaSu(f, S) ==
    IF S = {} THEN 0
    ELSE LET x == CHOOSE y \in S : TRUE IN f[x] + SommaSu(f, S \ {x})

\* the dates of the Schedule naming the member, and the minutes of its shift there
DateDi(nome) == {d \in DOMAIN pianificazione : nome \in NomiNelGiorno(d)}

MinutiNelGiorno(nome, d) ==
    pianificazione[d][CHOOSE j \in DOMAIN pianificazione[d] :
                          pianificazione[d][j][1] = nome][2].ore

StatisticheDopoUnaCorsa == stats # << >> /\ pc = "idle" /\ esito = "True" /\ modifiche = 0

C13_StatisticheAddetto ==
    StatisticheDopoUnaCorsa =>
        \A i \in DOMAIN addetti :
            LET a == addetti[i]
                registro == [j \in DOMAIN a.ore_per_settimana |-> a.ore_per_settimana[j][2]]
                durate == [d \in DateDi(a.nome) |-> MinutiNelGiorno(a.nome, d)]
            IN  /\ Voce(stats[1].ore_totali_per_addetto, a.nome)
                       = {SommaSu(registro, DOMAIN registro)}
                /\ SommaSu(registro, DOMAIN registro) = SommaSu(durate, DateDi(a.nome))
                /\ Voce(stats[1].ore_per_settimana, a.nome) = {a.ore_per_settimana}
                /\ Voce(stats[1].giorni_lavorati_per_addetto, a.nome)
                       = {Len(a.turni_assegnati)}
                /\ Len(a.turni_assegnati) = Cardinality(DateDi(a.nome))

\* statistics of a finished run in which a member worked in several weeks
C13_Witness ==
    /\ StatisticheDopoUnaCorsa
    /\ \E i \in DOMAIN addetti :
          /\ Len(addetti[i].ore_per_settimana) > 2
          /\ \E j \in DOMAIN stats[1].ore_totali_per_addetto :
                /\ stats[1].ore_totali_per_addetto[j][1] = addetti[i].nome
                /\ stats[1].ore_totali_per_addetto[j][2] > 40 * MinutiPerOra

(***************************************************************************)
(* C14: Sunday statistics. The per-member Sunday count is the number of    *)
(* Schedule dates that are Sundays and whose mapping contains the member   *)
(* (a member without such a date has no entry), the grand total is the sum *)
(* of the per-member counts, and a Schedule in which no day has an         *)
(* assignment yields zero total hours, zero days worked and zero Sundays   *)
(* for everyone.                                                           *)
(***************************************************************************)
DomenicheDi(nome) == {d \in DateDi(nome) : weekday(d) = 6}

NomiInPianificazione == UNION {NomiNelGiorno(d) : d \in DOMAIN pianificazione}

C14_StatisticheDomeniche ==
    StatisticheDopoUnaCorsa =>
        LET dettaglio == stats[1].dettaglio_domeniche
            conteggi == [j \in DOMAIN dettaglio |-> dettaglio[j][2]]
        IN  /\ \A nome \in NomiDi(addetti) \cup NomiInPianificazione :
                  Voce(dettaglio, nome) = {Cardinality(DomenicheDi(nome))} \ {0}
            /\ \A j, k \in DOMAIN dettaglio : dettaglio[j][1] = dettaglio[k][1] => j = k
            /\ stats[1].domeniche_lavorate = SommaSu(conteggi, DOMAIN conteggi)
            /\ (\A d \in DOMAIN pianificazione : pianificazione[d] = << >>) =>
                   /\ stats[1].domeniche_lavorate = 0
                   /\ dettaglio = << >>
                   /\ \A i \in DOMAIN addetti :
                         /\ Voce(stats[1].ore_totali_per_addetto, addetti[i].nome) = {0}
                         /\ Voce(stats[1].giorni_lavorati_per_addetto, addetti[i].nome) = {0}

\* statistics of a finished run in which two members worked on the same Sunday
\* and one of them on more Sundays than the other
C14_Witness ==
    /\ StatisticheDopoUnaCorsa
    /\ Len(stats[1].dettaglio_domeniche) = 2
    /\ stats[1].dettaglio_domeniche[1][2] # stats[1].dettaglio_domeniche[2][2]
    /\ stats[1].domeniche_lavorate > 2

\* statistics of a finished run whose Schedule has no assignment on any day
C14_WitnessVuota ==
    /\ StatisticheDopoUnaCorsa
    /\ DOMAIN pianificazione # {}
    /\ \A d \in DOMAIN pianificazione : pianificazione[d] = << >>

(***************************************************************************)
(* C15: assignment rule of a day. Each available member is paired with     *)
(* exactly one candidate shift; the member is written into the Schedule of *)
(* the day with precisely that candidate iff the hours of the week plus    *)
(* the candidate's do not exceed ore_max_settimanale (reaching it exactly  *)
(* is allowed); otherwise the member gets nothing that day, even when      *)
(* another shift type would fit, and the skipped candidate is not passed   *)
(* to another member.                                                      *)
(***************************************************************************)
Disponibili(d) ==
    {i \in DOMAIN addetti :
        /\ weekday(d) \notin addetti[i].giorni_riposo
        /\ Feria("datetime", d) \notin InsiemeDi(addetti[i].ferie_permessi)}

\* the pair at the head of the zip fits the week of the day
CoppiaEntra ==
    LET a == addetti[coda[1][1]]
    IN  MinutiRegistrati(a, isocalendar_week(giorni[idx])) + coda[1][2].ore
            <= a.ore_max_settimanale * MinutiPerOra

C15_RegolaDiAssegnazione ==
    /\ [][ (pc = "giorni" /\ pc' # "idle") =>
             LET d == giorni'[idx']
             IN  /\ Len(coda') = Cardinality(Disponibili(d))
                 /\ {coda'[j][1] : j \in DOMAIN coda'} = Disponibili(d)
                 /\ \A j \in DOMAIN coda' : coda'[j][2] \in InsiemeDi(turni) ]_vars
    /\ [][ pc = "zip" =>
             LET i == coda[1][1]
                 t == coda[1][2]
                 d == giorni[idx]
                 w == isocalendar_week(d)
             IN  /\ coda' = Tail(coda)
                 /\ \A k \in DOMAIN addetti : k # i => addetti'[k] = addetti[k]
                 /\ \A e \in DOMAIN pianificazione :
                       e # d => pianificazione'[e] = pianificazione[e]
                 /\ CoppiaEntra =>
                       /\ pianificazione'[d] = Append(pianificazione[d], <<addetti[i].nome, t>>)
                       /\ addetti'[i].turni_assegnati
                              = Append(addetti[i].turni_assegnati, <<d, t>>)
                       /\ MinutiRegistrati(addetti'[i], w)
                              = MinutiRegistrati(addetti[i], w) + t.ore
                 /\ ~CoppiaEntra =>
                       /\ pianificazione' = pianificazione
                       /\ addetti' = addetti ]_vars

\* the member at the head of the zip is about to be skipped although another
\* shift type of the catalog would fit its week, and a colleague is still to come
C15_Witness ==
    /\ pc = "zip"
    /\ ~CoppiaEntra
    /\ Len(coda) = 2
    /\ \E k \in DOMAIN turni :
          MinutiRegistrati(addetti[coda[1][1]], isocalendar_week(giorni[idx])) + turni[k].ore
              <= addetti[coda[1][1]].ore_max_settimanale * MinutiPerOra

(***************************************************************************)
(* C16: rotation. For every member the selector serves on a day, the       *)
(* candidate differs from the member's previous shift whenever the working *)
(* pool still holds a shift type different from it, and equals it only     *)
(* when every remaining pool entry equals that shift; also for the members *)
(* served after the pool was exhausted and refilled.                       *)
(***************************************************************************)
\* the zip of the day has just been computed and no pair has been visited
ZipAppenaCalcolato ==
    pc = "zip" /\ Len(coda) = Cardinality(Disponibili(giorni[idx]))

SenzaIlPrimo(lst, x) ==
    IF \E k \in DOMAIN lst : lst[k] = x
    THEN LET k == CHOOSE n \in DOMAIN lst : lst[n] = x /\ \A h \in 1..(n - 1) : lst[h] # x
         IN  SubSeq(lst, 1, k - 1) \o SubSeq(lst, k + 1, Len(lst))
    ELSE lst

\* the working pool the j-th member of the zip draws from: the catalog less the
\* candidates drawn before, refilled with the catalog when it has run out
RECURSIVE PoolDelServito(_)
PoolDelServito(j) ==
    IF j = 1 THEN turni
    ELSE LET resto == SenzaIlPrimo(PoolDelServito(j - 1), coda[j - 1][2])
         IN  IF resto = << >> THEN turni ELSE resto

\* the shifts the member holds on the day before d
TurnoDiIeri(a, d) ==
    {a.turni_assegnati[k][2] :
        k \in {h \in DOMAIN a.turni_assegnati :
                  toordinal(a.turni_assegnati[h][1]) = toordinal(d) - 1}}

C16_Rotazione ==
    ZipAppenaCalcolato =>
        \A j \in DOMAIN coda :
            \A ieri \in TurnoDiIeri(addetti[coda[j][1]], giorni[idx]) :
                (\E k \in DOMAIN PoolDelServito(j) : PoolDelServito(j)[k] # ieri)
                    => coda[j][2] # ieri

(***************************************************************************)
(* C17: the shift the selector avoids for a member on day d is the         *)
(* member's assignment on exactly day d-1; a member with no assignment on  *)
(* d-1 has no last shift and receives the first entry of the current pool, *)
(* whatever it worked on earlier days.                                     *)
(***************************************************************************)
C17_TurnoDiIeri ==
    ZipAppenaCalcolato =>
        \A j \in DOMAIN coda :
            TurnoDiIeri(addetti[coda[j][1]], giorni[idx]) = {}
                => coda[j][2] = PoolDelServito(j)[1]

\* C17 as amended: the shift avoided is the member's most recent assignment of
\* the run, on whatever day it was worked. A member with no assignment yet in
\* the run receives the first entry of the current pool; a member with
\* assignments that draws from a pool still holding entries receives the first
\* entry different from its most recent shift, the first entry if none differs.
PoolRimasto(j) ==
    IF j = 1 THEN turni ELSE SenzaIlPrimo(PoolDelServito(j - 1), coda[j - 1][2])

C17_UltimoAssegnato ==
    ZipAppenaCalcolato =>
        \A j \in DOMAIN coda :
            LET a == addetti[coda[j][1]]
                P == PoolDelServito(j)
            IN  /\ a.turni_assegnati = << >> => coda[j][2] = P[1]
                /\ (a.turni_assegnati # << >> /\ PoolRimasto(j) # << >>) =>
                       LET ultimo == a.turni_assegnati[Len(a.turni_assegnati)][2]
                           diversi == {k \in DOMAIN P : P[k] # ultimo}
                       IN  IF diversi = {} THEN coda[j][2] = P[1]
                           ELSE /\ coda[j][2] # ultimo
                                /\ \E k \in diversi :
                                      /\ coda[j][2] = P[k]
                                      /\ \A h \in diversi : k <= h

\* a member that did not work the day before is given the second pool entry,
\* because the first is the shift it worked on an earlier day
C17_Witness ==
    /\ ZipAppenaCalcolato
    /\ \E j \in DOMAIN coda :
          LET a == addetti[coda[j][1]]
          IN  /\ TurnoDiIeri(a, giorni[idx]) = {}
              /\ a.turni_assegnati # << >>
              /\ a.turni_assegnati[Len(a.turni_assegnati)][2] = PoolDelServito(j)[1]
              /\ coda[j][2] # PoolDelServito(j)[1]

(***************************************************************************)
(* C18: processing order within a day. The available members are served in *)
(* ascending order of (hours recorded in the ISO week of the day, rotation *)
(* priority) and members with equal keys keep their roster order; this is  *)
(* the order in which they draw from the pool and in which their entries   *)
(* are inserted into the Schedule of the day.                              *)
(***************************************************************************)
\* the rotation priority as described: 1 only when the member worked the day
\* before and every configured shift type is that shift
PrioritaDiRotazione(a, d) ==
    IF TurnoDiIeri(a, d) # {} /\ InsiemeDi(turni) \subseteq TurnoDiIeri(a, d) THEN 1 ELSE 0

Viene(i, k, d) ==
    LET w == isocalendar_week(d)
        hi == MinutiRegistrati(addetti[i], w)
        hk == MinutiRegistrati(addetti[k], w)
        pi == PrioritaDiRotazione(addetti[i], d)
        pk == PrioritaDiRotazione(addetti[k], d)
    IN  \/ hi < hk
        \/ hi = hk /\ pi < pk
        \/ hi = hk /\ pi = pk /\ i < k

C18_OrdineDelGiorno ==
    /\ [](ZipAppenaCalcolato =>
              /\ \A j, k \in DOMAIN coda :
                    j < k => Viene(coda[j][1], coda[k][1], giorni[idx])
              /\ pianificazione[giorni[idx]] = << >>)
    /\ [][ pc = "zip" =>
             LET d == giorni[idx]
             IN  \/ pianificazione'[d] = pianificazione[d]
                 \/ pianificazione'[d]
                        = Append(pianificazione[d], <<addetti[coda[1][1]].nome, coda[1][2]>>) ]_vars

\* three members are about to be served in an order that is not the roster's:
\* the third of the roster first, and two with equal keys in roster order
C18_Witness ==
    /\ ZipAppenaCalcolato
    /\ Len(coda) = 3
    /\ coda[1][1] = 3 /\ coda[2][1] = 1 /\ coda[3][1] = 2
    /\ MinutiRegistrati(addetti[1], isocalendar_week(giorni[idx]))
           = MinutiRegistrati(addetti[2], isocalendar_week(giorni[idx]))

(***************************************************************************)
(* C19: _get_priorita_turno(s, d) returns 0 when s has no assignment on    *)
(* d-1, and otherwise 1 only when every configured shift type is the shift *)
(* s worked on d-1; with more than one shift type configured it returns 0  *)
(* for every member and every day.                                         *)
(***************************************************************************)
\* the loop is about to take the next day and compute the keys of the members
ProssimoGiorno == pc = "giorni" /\ idx < Len(giorni)

C19_PrioritaDiRotazione ==
    ProssimoGiorno =>
        \A i \in DOMAIN addetti :
            LET d == giorni[idx + 1]
                p == _get_priorita_turno(addetti[i], d, turni)
            IN  /\ TurnoDiIeri(addetti[i], d) = {} => p = 0
                /\ p \in {0, 1}
                /\ p = 1 <=> (/\ TurnoDiIeri(addetti[i], d) # {}
                              /\ \A k \in DOMAIN turni : turni[k] \in TurnoDiIeri(addetti[i], d))
                /\ Len(turni) > 1 => p = 0

\* with a single shift type, one member worked it the day before (priority 1)
\* and the other did not (priority 0)
C19_Witness ==
    /\ ProssimoGiorno
    /\ Len(turni) = 1
    /\ Len(addetti) = 2
    /\ \E i, k \in DOMAIN addetti :
          /\ _get_priorita_turno(addetti[i], giorni[idx + 1], turni) = 1
          /\ _get_priorita_turno(addetti[k], giorni[idx + 1], turni) = 0
          /\ addetti[k].turni_assegnati # << >>

(***************************************************************************)
(* C20: _seleziona_turni returns exactly one candidate shift per available *)
(* member, never fewer, each of them a shift of the catalog, for every     *)
(* number of available members and every non-empty catalog, also when the  *)
(* members outnumber the shift types.                                      *)
(***************************************************************************)
C20_UnCandidatoPerAddetto ==
    [][ (pc = "giorni" /\ idx' = idx + 1) =>
           /\ Len(coda') = Cardinality(Disponibili(giorni[idx']))
           /\ \A i \in Disponibili(giorni[idx']) :
                 Cardinality({j \in DOMAIN coda' : coda'[j][1] = i}) = 1
           /\ \A j \in DOMAIN coda' : \E k \in DOMAIN turni : coda'[j][2] = turni[k] ]_vars

\* three available members have each a candidate from a catalog of one shift type
C20_Witness ==
    /\ pc = "zip"
    /\ Len(turni) = 1
    /\ Len(coda) = 3
    /\ Cardinality(Disponibili(giorni[idx])) = 3
    /\ \A j \in DOMAIN coda : coda[j][2] = turni[1]

(***************************************************************************)
(* C21: draw without replacement. Within a day no shift type is handed out *)
(* as a candidate a second time before every configured type has been      *)
(* handed out once: with k shift types the candidates of each block of k   *)
(* consecutively served members (1..k, k+1..2k, ...) are pairwise          *)
(* distinct, so the candidate counts of two shift types differ by at most  *)
(* one.                                                                    *)
(***************************************************************************)
CandidatiDi(t) == Cardinality({j \in DOMAIN coda : coda[j][2] = t})

C21_SenzaReimmissione ==
    ZipAppenaCalcolato =>
        /\ \A j, h \in DOMAIN coda :
              (j < h /\ (j - 1) \div Len(turni) = (h - 1) \div Len(turni))
                  => coda[j][2] # coda[h][2]
        /\ \A x, y \in DOMAIN turni :
              CandidatiDi(turni[x]) - CandidatiDi(turni[y]) \in {-1, 0, 1}

\* four members are served from two shift types: two full blocks
C21_Witness ==
    /\ ZipAppenaCalcolato
    /\ Len(turni) = 2
    /\ Len(coda) = 4
    /\ coda[3][2] # coda[4][2]
    /\ CandidatiDi(turni[1]) = 2 /\ CandidatiDi(turni[2]) = 2

(***************************************************************************)
(* C22: no backtracking. Within one run, once a day has been processed its *)
(* Schedule entry and every member's assignment on it never change again   *)
(* (nothing altered, removed or added), and no member's ledger value for a *)
(* week ever decreases.                                                    *)
(***************************************************************************)
\* the days the run has finished with: the days taken, less the one in hand
GiorniConclusi ==
    IF pc = "zip" THEN InsiemeDi(processati) \ {giorni[idx]} ELSE InsiemeDi(processati)

AssegnatoIl(a, d) ==
    {a.turni_assegnati[k][2] : k \in {h \in DOMAIN a.turni_assegnati :
                                         a.turni_assegnati[h][1] = d}}

SettimaneDelRegistro(a) == {a.ore_per_settimana[j][1] : j \in DOMAIN a.ore_per_settimana}

C22_NessunRipensamento ==
    [][ pc # "idle" =>
           /\ \A d \in GiorniConclusi :
                 /\ pianificazione'[d] = pianificazione[d]
                 /\ \A i \in DOMAIN addetti :
                       AssegnatoIl(addetti'[i], d) = AssegnatoIl(addetti[i], d)
           /\ DOMAIN addetti' = DOMAIN addetti
           /\ \A i \in DOMAIN addetti :
                 \A w \in SettimaneDelRegistro(addetti[i]) :
                     /\ w \in SettimaneDelRegistro(addetti'[i])
                     /\ MinutiRegistrati(addetti'[i], w) >= MinutiRegistrati(addetti[i], w) ]_vars

\* two days after a day on which a member was assigned and another one, though
\* available, was left out, the run is visiting the pairs of a later day
C22_Witness ==
    /\ pc = "zip"
    /\ idx > 2
    /\ \E i, k \in DOMAIN addetti :
          /\ AssegnatoIl(addetti[i], giorni[idx - 2]) # {}
          /\ AssegnatoIl(addetti[k], giorni[idx - 2]) = {}
          /\ weekday(giorni[idx - 2]) \notin addetti[k].giorni_riposo
          /\ Feria("datetime", giorni[idx - 2]) \notin InsiemeDi(addetti[k].ferie_permessi)

(***************************************************************************)
(* C23: loading a persisted Schedule resolves every stored shift name      *)
(* against the loaded catalog. An entry whose shift name is in the catalog *)
(* maps the member to the catalog's Turno of that name; an entry whose     *)
(* shift name is unknown is dropped without failing the load, and the      *)
(* other entries of the same date are kept.                                *)
(***************************************************************************)
\* carica_dati has returned the content of a file written by salva_dati
Caricata == file # << >> /\ caricati # << >>

\* the entries of a stored date whose shift name the loaded catalog knows
VociNote(voci) ==
    {j \in DOMAIN voci : \E k \in DOMAIN caricati[1].turni :
                             caricati[1].turni[k].nome = voci[j][2]}

C23_NomiDiTurnoRisolti ==
    Caricata =>
        LET doc == file[1]
            ris == caricati[1]
        IN  /\ Len(ris.addetti) = Len(doc.addetti)
            /\ Len(ris.turni) = Len(doc.turni)
            /\ \A str \in DOMAIN doc.pianificazione :
                  LET d == Data(str[1], str[2], str[3])
                      voci == doc.pianificazione[str]
                  IN  VociNote(voci) # {} =>
                          /\ d \in DOMAIN ris.pianificazione
                          /\ Len(ris.pianificazione[d]) = Cardinality(VociNote(voci))
                          /\ \A j \in VociNote(voci) :
                                \E h \in DOMAIN ris.pianificazione[d] :
                                    /\ ris.pianificazione[d][h][1] = voci[j][1]
                                    /\ ris.pianificazione[d][h][2].nome = voci[j][2]
                                    /\ ris.pianificazione[d][h][2] \in InsiemeDi(ris.turni)
                          /\ \A j \in DOMAIN voci \ VociNote(voci) :
                                \A h \in DOMAIN ris.pianificazione[d] :
                                    ris.pianificazione[d][h][1] # voci[j][1]

\* a date stored with two entries, one of a shift removed from the catalog
\* before the save, has been loaded with the other entry alone
C23_Witness ==
    /\ Caricata
    /\ \E str \in DOMAIN file[1].pianificazione :
          /\ Len(file[1].pianificazione[str]) = 2
          /\ Cardinality(VociNote(file[1].pianificazione[str])) = 1
          /\ Data(str[1], str[2], str[3]) \in DOMAIN caricati[1].pianificazione
          /\ Len(caricati[1].pianificazione[Data(str[1], str[2], str[3])]) = 1

(***************************************************************************)
(* C24: the core has no guard against concurrent runs. When two            *)
(* pianifica_turni executions over the same Addetto objects are            *)
(* interleaved day by day (one run's reset or assignment falling between   *)
(* two days of the other), a state is reachable in which a Schedule gives  *)
(* a member more hours in one ISO week than ore_max_settimanale; when the  *)
(* two runs are serialized no such state is reachable. Stated as: a        *)
(* Schedule exceeds a member's ceiling only if the two runs were at some   *)
(* moment both in progress; the witness is such a state.                   *)
(***************************************************************************)
\* the minutes the Schedule pian gives to the name in ISO week w
MinutiNelPiano(pian, nome, w) ==
    LET date == {d \in DOMAIN pian : isocalendar_week(d) = w /\ Voce(pian[d], nome) # {}}
    IN  SommaSu([d \in date |-> SommaSu([t \in Voce(pian[d], nome) |-> t.ore],
                                        Voce(pian[d], nome))], date)

\* the Schedule of call r gives some member more than its ceiling in some week
SforaIlTetto(r) ==
    \E i \in DOMAIN addetti :
        \E w \in {isocalendar_week(d) : d \in DOMAIN corse[r].pianificazione} :
            MinutiNelPiano(corse[r].pianificazione, addetti[i].nome, w)
                > addetti[i].ore_max_settimanale * MinutiPerOra

C24_SoloSeIntrecciate ==
    (\E r \in Corse : SforaIlTetto(r)) => scambi.intrecciate

\* the two runs were interleaved and the Schedule of one exceeds a member's ceiling
C24_Witness ==
    /\ scambi.intrecciate
    /\ \E r \in Corse : SforaIlTetto(r)

\* the two runs were serialized, both have returned True, and both Schedules hold
\* assignments
C24_WitnessInSerie ==
    /\ ~scambi.intrecciate
    /\ \A r \in Corse :
          /\ corse[r].esito = "True"
          /\ \E d \in DOMAIN corse[r].pianificazione : corse[r].pianificazione[d] # << >>

(***************************************************************************)
(* C25: ledger consistency. In every state during and after a run, for     *)
(* every member and every ISO week w, ore_per_settimana[w] is the sum of   *)
(* the durations of the shifts of turni_assegnati whose date has ISO week  *)
(* number w, and the ledger has no key for a week in which the member has  *)
(* no assignment.                                                          *)
(***************************************************************************)
\* the entries of turni_assegnati whose date falls in ISO week w
AssegnazioniDellaSettimana(a, w) ==
    {j \in DOMAIN a.turni_assegnati : isocalendar_week(a.turni_assegnati[j][1]) = w}

DurateAssegnate(a) == [j \in DOMAIN a.turni_assegnati |-> a.turni_assegnati[j][2].ore]

\* the ISO weeks in which the member has an assignment
SettimaneAssegnate(a) ==
    {isocalendar_week(a.turni_assegnati[j][1]) : j \in DOMAIN a.turni_assegnati}

C25_RegistroCoerente ==
    esito \in {"in_corso", "True"} =>
        \A i \in DOMAIN addetti :
            LET a == addetti[i]
            IN  /\ \A j, k \in DOMAIN a.ore_per_settimana :
                      a.ore_per_settimana[j][1] = a.ore_per_settimana[k][1] => j = k
                /\ SettimaneDelRegistro(a) = SettimaneAssegnate(a)
                /\ \A w \in SettimaneAssegnate(a) :
                      MinutiRegistrati(a, w)
                          = SommaSu(DurateAssegnate(a), AssegnazioniDellaSettimana(a, w))

\* a run is over; a member holds two shifts or more in one week, and a member
\* with a ledger has no key for a week of which the run has visited a day
C25_Witness ==
    /\ Completata
    /\ \E i \in DOMAIN addetti :
          \E w \in SettimaneDelRegistro(addetti[i]) :
              Cardinality(AssegnazioniDellaSettimana(addetti[i], w)) >= 2
    /\ \E i \in DOMAIN addetti :
          /\ addetti[i].ore_per_settimana # << >>
          /\ \E d \in InsiemeDi(processati) :
                isocalendar_week(d) \notin SettimaneDelRegistro(addetti[i])

(***************************************************************************)
(* C26: Schedule/assignment agreement. With pairwise distinct roster       *)
(* names, in every state during and after a run, pianificazione[d] maps a  *)
(* member's name to t exactly when the member's turni_assegnati maps d to  *)
(* t: each member has at most one shift per day and the two views agree.   *)
(***************************************************************************)
NomiDistinti == \A i, j \in DOMAIN addetti : addetti[i].nome = addetti[j].nome => i = j

\* what the Schedule holds for the name on the date: no entry when the date is no key
NelPiano(nome, d) ==
    IF d \in DOMAIN pianificazione THEN Voce(pianificazione[d], nome) ELSE {}

C26_PianoEAssegnazioni ==
    (InCorsoOCompletata /\ NomiDistinti) =>
        \A i \in DOMAIN addetti :
            /\ \A d \in DOMAIN pianificazione \cup GiorniAssegnati(addetti[i]) :
                  /\ NelPiano(addetti[i].nome, d) = AssegnatoIl(addetti[i], d)
                  /\ Cardinality(NelPiano(addetti[i].nome, d)) <= 1
            /\ \A h, k \in DOMAIN addetti[i].turni_assegnati :
                  addetti[i].turni_assegnati[h][1] = addetti[i].turni_assegnati[k][1] => h = k
            /\ \A d \in DOMAIN pianificazione :
                  \A h, k \in DOMAIN pianificazione[d] :
                      pianificazione[d][h][1] = pianificazione[d][k][1] => h = k

\* a run is over; a day holds two members with different shifts and another day
\* holds one of them alone
C26_Witness ==
    /\ Completata
    /\ NomiDistinti
    /\ \E d, e \in DOMAIN pianificazione :
          /\ Len(pianificazione[d]) = 2
          /\ pianificazione[d][1][2] # pianificazione[d][2][2]
          /\ Len(pianificazione[e]) = 1

(***************************************************************************)
(* C27: referential integrity over operation sequences. After any sequence *)
(* of aggiungi_addetto, rimuovi_addetto, aggiungi_turno, rimuovi_turno and *)
(* pianifica_turni calls, every member name of pianificazione is in the    *)
(* roster and every shift of pianificazione is in the catalog, so          *)
(* genera_statistiche gives no Sunday count to a name that has no          *)
(* total-hours entry.                                                      *)
(***************************************************************************)
TurniInPianificazione ==
    UNION {{pianificazione[d][j][2] : j \in DOMAIN pianificazione[d]} :
              d \in DOMAIN pianificazione}

C27_IntegritaReferenziale ==
    pc = "idle" =>
        /\ NomiInPianificazione \subseteq NomiDi(addetti)
        /\ TurniInPianificazione \subseteq InsiemeDi(turni)
        /\ stats # << >> =>
              DictKeys(stats[1].dettaglio_domeniche)
                  \subseteq DictKeys(stats[1].ore_totali_per_addetto)

(***************************************************************************)
(* C28: run frame. pianifica_turni changes only pianificazione and the     *)
(* members' ore_per_settimana and turni_assegnati: the roster and its      *)
(* order, the catalog and its order, the month and year, and every         *)
(* member's nome, ore_contratto, ore_max_settimanale, straordinario,       *)
(* giorni_riposo and ferie_permessi are after each step of the call what   *)
(* they were before it, when the call succeeds and when it fails.          *)
(***************************************************************************)
\* the step belongs to a call of pianifica_turni: a step of a run, or one made
\* at rest on an empty roster or catalog that is no change of the configuration
PassoDiPianifica ==
    \/ pc # "idle"
    \/ pc' # "idle"
    \/ /\ ~configurazione_valida(addetti, turni)
       /\ modifiche' = modifiche
       /\ esito' = "False"

C28_CorniceDellaCorsa ==
    [][ PassoDiPianifica =>
           /\ anno' = anno
           /\ mese' = mese
           /\ turni' = turni
           /\ Len(addetti') = Len(addetti)
           /\ \A i \in DOMAIN addetti : Nuovo(addetti'[i]) = Nuovo(addetti[i]) ]_vars

\* a second run has returned True on a roster holding a member with a rest day and
\* absences, and has assigned it
C28_Witness ==
    /\ Completata
    /\ riuso
    /\ \E i \in DOMAIN addetti :
          /\ addetti[i].giorni_riposo # {}
          /\ addetti[i].ferie_permessi # << >>
          /\ addetti[i].turni_assegnati # << >>

(***************************************************************************)
(* C29: roster persistence round trip. The members loaded from a saved     *)
(* roster have the name, hour bounds, overtime flag and rest weekdays of   *)
(* the members saved, and puo_lavorare answers for them as it does for the *)
(* saved members on every date of the planning month: a date recorded as   *)
(* an absence before the save is still unavailable after the load.        *)
(***************************************************************************)
GiorniDelCalendario == {Data(anno, mese, g) : g \in 1..monthrange(anno, mese)}

C29_AndataERitornoAddetti ==
    Caricata =>
        /\ Len(caricati[1].addetti) = Len(addetti)
        /\ \A i \in DOMAIN addetti :
              LET prima == addetti[i]
                  dopo == caricati[1].addetti[i]
              IN  /\ dopo.nome = prima.nome
                  /\ dopo.ore_contratto = prima.ore_contratto
                  /\ dopo.ore_max_settimanale = prima.ore_max_settimanale
                  /\ dopo.straordinario = prima.straordinario
                  /\ dopo.giorni_riposo = prima.giorni_riposo
                  /\ \A d \in GiorniDelCalendario :
                        puo_lavorare(dopo, d) = puo_lavorare(prima, d)

(***************************************************************************)
(* C30: Schedule persistence round trip. A Schedule produced by a run over *)
(* a catalog of pairwise distinct shift names, saved and loaded with that  *)
(* catalog, has the same date keys, the dates with an empty inner mapping  *)
(* included, and for every date the same member -> shift mapping.          *)
(***************************************************************************)
NomiDiTurnoDistinti ==
    \A i, j \in DOMAIN turni : turni[i].nome = turni[j].nome => i = j

C30_AndataERitornoPianificazione ==
    (Caricata /\ esito = "True" /\ modifiche = 0 /\ NomiDiTurnoDistinti) =>
        /\ DOMAIN caricati[1].pianificazione = DOMAIN pianificazione
        /\ \A d \in DOMAIN pianificazione :
              InsiemeDi(caricati[1].pianificazione[d]) = InsiemeDi(pianificazione[d])

====
